---- MODULE Spec2Model ----
(***************************************************************************)
(* Model of option_value.py: the Black-Scholes pricing functions, the      *)
(* three yfinance resolvers and the curses refresh loop stream_valuation.  *)
(*                                                                         *)
(* Units.  Prices, strikes and moves are whole dollars.  A volatility is   *)
(* carried in hundredths (0.25 is 25), a rate in ten-thousandths (0.05 is  *)
(* 500), the ^IRX quote in whole percent.  Time runs in ticks of half a    *)
(* day; T, the time to expiry in years, is carried as its number of whole  *)
(* days (T = days / 365.0 has the sign of days and is 0 iff days is 0).    *)
(***************************************************************************)
EXTENDS Integers, Sequences, FiniteSets, TLC

VARIABLES
    pc,           \* position of the process: idle, load, prices, header, rows,
                  \* refresh, sleep, cancelled, crashed
    exc,          \* the exception that left main() uncaught ("none" otherwise)
    raised_at,    \* where the program was when an exception or the
                  \* KeyboardInterrupt was raised ("none" before)
    sigint,       \* a SIGINT (Ctrl+C) is pending delivery
    csv_file,     \* content of the positions file, or Unreadable
    now,          \* datetime.now(), in ticks
    LINES,        \* height of the curses screen
    cycle,        \* number of the refresh cycle under way (0 before the first)
    live_r,       \* stream_valuation's local live_r
    rate_queries, \* get_risk_free_rate calls made since the cycle began
    price_queries, \* get_live_price calls made since the cycle began
    vol_queries,  \* the rows whose pass called get_implied_vol, this cycle
    positions,    \* stream_valuation's local positions
    ticker_data,  \* stream_valuation's local ticker_data
    header,       \* the header drawn on the screen since the last clear()
    rows,         \* the data rows drawn since the last clear(), in order
    call,         \* unit run: the function called and its arguments
    ret           \* unit run: its outcome

vars == <<pc, exc, raised_at, sigint, csv_file, now, LINES, cycle, live_r, rate_queries,
          price_queries, vol_queries, positions, ticker_data, header, rows, call, ret>>

loopVars == <<pc, exc, raised_at, sigint, csv_file, now, LINES, cycle, live_r,
              rate_queries, price_queries, vol_queries, positions, ticker_data, header, rows>>

-----------------------------------------------------------------------------
(* Bounds of the model *)

MaxPositions == 2     \* records in the positions file
MaxCycles == 2        \* refresh cycles followed
MaxChain == 3         \* entries of an option chain frame

-----------------------------------------------------------------------------
(* Python values *)

\* None, and a number n
None == [tag |-> "none"]
Num(n) == [tag |-> "val", v |-> n]
IsNum(x) == x.tag = "val"

\* The outcome of a call or of a block: it returns a value, raises, or (a
\* block) falls through to the statement after it
Return(v) == [kind |-> "return", val |-> v]
Raise(e) == [kind |-> "raise", exc |-> e]
Fall == [kind |-> "fall"]

\* The answer of one provider call: it raises, or yields a value
Raises == [tag |-> "raise"]

\* Classes caught by "except Exception"; KeyboardInterrupt is not one
ExceptionClasses ==
    {"ProviderError", "UnboundLocalError", "ValueError", "ZeroDivisionError",
     "TypeError", "curses.error", "FileNotFoundError"}

Max(a, b) == IF a >= b THEN a ELSE b
Abs(a) == IF a >= 0 THEN a ELSE -a

-----------------------------------------------------------------------------
(* Default fallback parameters *)

R_DEFAULT == 500
SIGMA_DEFAULT == 25
SHARES_PER_CONTRACT == 100

-----------------------------------------------------------------------------
(* Black-Scholes formulas.  A value is coef * BS(term) + const: the closed   *)
(* form is kept as the term it is computed from, so that the arithmetic    *)
(* done on it afterwards stays exact.                                      *)

NoTerm == [fn |-> "none", S |-> 0, K |-> 0, r |-> 0, sigma |-> 0, T |-> 0]
Exact(n) == [coef |-> 0, term |-> NoTerm, const |-> n]
Closed(fn, S, K, r, sigma, T) ==
    [coef |-> 1,
     term |-> [fn |-> fn, S |-> S, K |-> K, r |-> r, sigma |-> sigma, T |-> T],
     const |-> 0]
Times(x, k) == [x EXCEPT !.coef = @ * k, !.const = @ * k]
Minus(x, n) == [x EXCEPT !.const = @ - n]

\* d1 = (log(S / K) + (r + 0.5 * sigma ** 2) * T) / (sigma * sqrt(T)), for
\* T > 0: S / K divides by zero when K is 0, log raises on a ratio <= 0, and
\* the quotient divides by zero when sigma is 0
d1_error(S, K, sigma) ==
    IF K = 0 THEN "ZeroDivisionError"
    ELSE IF S = 0 \/ (S < 0) # (K < 0) THEN "ValueError"
    ELSE IF sigma = 0 THEN "ZeroDivisionError"
    ELSE "none"

call_value(S, K, r, sigma, T) ==
    IF T <= 0 THEN Return(Exact(Max(0, S - K)))
    ELSE IF d1_error(S, K, sigma) # "none" THEN Raise(d1_error(S, K, sigma))
    ELSE Return(Closed("call", S, K, r, sigma, T))

\* put_value with K - S returned at expiry, without the floor at zero
put_value_signed(S, K, r, sigma, T) ==
    IF T <= 0 THEN Return(Exact(K - S))
    ELSE IF d1_error(S, K, sigma) # "none" THEN Raise(d1_error(S, K, sigma))
    ELSE Return(Closed("put", S, K, r, sigma, T))

put_value(S, K, r, sigma, T) ==
    IF T <= 0 THEN Return(Exact(Max(0, K - S)))
    ELSE IF d1_error(S, K, sigma) # "none" THEN Raise(d1_error(S, K, sigma))
    ELSE Return(Closed("put", S, K, r, sigma, T))

-----------------------------------------------------------------------------
(* try: body / except Exception: handler *)

\* The outcome of "try: body except Exception: handler", handler being an
\* outcome too (pass is Fall)
TryExcept(body, handler) ==
    IF body.kind = "raise" /\ body.exc \in ExceptionClasses THEN handler
    ELSE body

\* The outcome of a block followed by the statements after it
Then(first, rest) == IF first.kind = "fall" THEN rest ELSE first

-----------------------------------------------------------------------------
(* get_risk_free_rate.  env holds the provider's answers: ctor is what     *)
(* yf.Ticker("^IRX") does, info is what ticker.info and the lookup of      *)
(* "regularMarketPrice" in it give (the quote in percent, None, or an      *)
(* exception).                                                             *)

get_risk_free_rate_body(env) ==
    IF env.ctor = "raise" THEN Raise("ProviderError")
    ELSE IF env.info = Raises THEN Raise("ProviderError")
    ELSE IF env.info # None THEN Return(Num(env.info.v * 100))
    ELSE Fall

get_risk_free_rate(env) ==
    Then(TryExcept(get_risk_free_rate_body(env), Fall), Return(Num(R_DEFAULT)))

-----------------------------------------------------------------------------
(* get_implied_vol.  env: ctor; options, the set of listed expiration      *)
(* dates or an exception; chain, whether option_chain() raises; calls and  *)
(* puts, the two frames, each with its rows in order and whether it has    *)
(* an impliedVolatility column.                                            *)

\* df["diff"] = abs(df["strike"] - target_strike)
Diffs(frame_rows, target_strike) ==
    [i \in 1..Len(frame_rows) |-> Abs(frame_rows[i].strike - target_strike)]

\* idxmin_from with a tie going to the later row
RECURSIVE idxmin_last(_, _, _)
idxmin_last(d, from, best) ==
    IF from > Len(d) THEN best
    ELSE idxmin_last(d, from + 1, IF d[from] <= d[best] THEN from ELSE best)

\* idxmin over d[from..Len(d)], best being the index of the least value seen
\* so far: a later value replaces it only when strictly smaller
RECURSIVE idxmin_from(_, _, _)
idxmin_from(d, from, best) ==
    IF from > Len(d) THEN best
    ELSE idxmin_from(d, from + 1, IF d[from] < d[best] THEN from ELSE best)

idxmin(d) == idxmin_from(d, 2, 1)

\* best_row.get("impliedVolatility", SIGMA_DEFAULT)
best_row_get(frame, i) ==
    IF frame.has_iv THEN frame.rows[i].iv ELSE Num(SIGMA_DEFAULT)

\* sigma_live returned without the test for None
sigma_unchecked(sigma_live) == sigma_live

\* if sigma_live is None: return SIGMA_DEFAULT / return sigma_live
sigma_or_default(sigma_live) ==
    IF sigma_live = None THEN Num(SIGMA_DEFAULT) ELSE sigma_live

select_frame(env, option_type) ==
    IF option_type = "call" THEN env.calls ELSE env.puts

get_implied_vol_body(env, exp_str, option_type, target_strike) ==
    IF env.ctor = "raise" THEN Raise("ProviderError")
    ELSE IF env.options = Raises THEN Raise("ProviderError")
    ELSE IF exp_str \notin env.options.v THEN Return(Num(SIGMA_DEFAULT))
    ELSE IF env.chain = "raise" THEN Raise("ProviderError")
    ELSE LET df == select_frame(env, option_type) IN
         IF df.rows = <<>> THEN Return(Num(SIGMA_DEFAULT))
         ELSE Return(sigma_or_default(
                  best_row_get(df, idxmin(Diffs(df.rows, target_strike)))))

get_implied_vol(env, exp_str, option_type, target_strike) ==
    TryExcept(get_implied_vol_body(env, exp_str, option_type, target_strike),
              Return(Num(SIGMA_DEFAULT)))

-----------------------------------------------------------------------------
(* get_live_price.  env: ctor; has_fast, what hasattr(ticker, 'fast_info') *)
(* gives; fast, info and history, what each source gives (a price, None -  *)
(* for history an empty frame - or an exception).                          *)

Empty == [tag |-> "empty"]

fast_info_part(env) ==
    IF ~env.has_fast THEN Fall
    ELSE IF env.fast = Raises THEN Raise("ProviderError")
    ELSE IF env.fast # None THEN Return(env.fast)
    ELSE Fall

info_part(env) ==
    IF env.info = Raises THEN Raise("ProviderError")
    ELSE IF env.info # None THEN Return(env.info)
    ELSE Fall

\* the first try block, lines 98-106
first_try(env) ==
    IF env.ctor = "raise" THEN Raise("ProviderError")
    ELSE Then(fast_info_part(env), info_part(env))

\* the second try block, lines 110-112: ticker is unbound when yf.Ticker raised
second_try(env) ==
    IF env.ctor = "raise" THEN Raise("UnboundLocalError")
    ELSE IF env.history = Raises THEN Raise("ProviderError")
    ELSE IF env.history # Empty THEN Return(env.history)
    ELSE Fall

\* the second try block without its except clause
history_unguarded(env) == second_try(env)

history_fallback(env) == TryExcept(second_try(env), Return(None))

get_live_price(env) ==
    Then(TryExcept(first_try(env), Fall),
         Then(history_fallback(env), Return(None)))

-----------------------------------------------------------------------------
(* The answers the provider may give *)

PriceValues == {95, 105}
RatePercents == {0, 4}
IVValues == {0, 30}
ChainStrikes == {95, 100, 105}
ExpDates == {0, 2}

Answers(values) == {Raises, None} \cup {Num(v) : v \in values}

PriceEnvs ==
    [ctor : {"ok", "raise"}, has_fast : BOOLEAN,
     fast : Answers(PriceValues), info : Answers(PriceValues),
     history : {Raises, Empty} \cup {Num(v) : v \in PriceValues}]

RateEnvs == [ctor : {"ok", "raise"}, info : Answers(RatePercents)]

ChainRows == [strike : ChainStrikes, iv : {None} \cup {Num(v) : v \in IVValues}]

SeqsUpTo(S, n) == UNION {[1..k -> S] : k \in 0..n}

Frames(n) == [rows : SeqsUpTo(ChainRows, n), has_iv : BOOLEAN]

\* The chains the provider may return: requested is the frame of the option
\* type asked for, other the frame of the other type
Chains(option_type, requested, other) ==
    IF option_type = "call" THEN [calls |-> requested, puts |-> other]
    ELSE [calls |-> other, puts |-> requested]

VolEnv(ctor, options, chain, frames) ==
    [ctor |-> ctor, options |-> options, chain |-> chain,
     calls |-> frames.calls, puts |-> frames.puts]

OptionsAnswers == {Raises} \cup {Num(d) : d \in SUBSET ExpDates}

-----------------------------------------------------------------------------
(* Unit runs: one function applied to one set of arguments *)

PricingArgs ==
    [S : {-5, 0, 95, 105}, K : {-100, 0, 100}, r : {R_DEFAULT},
     sigma : {-10, 0, SIGMA_DEFAULT}, T : {-1, 0, 30}]

VolCall(env, option_type, target) ==
    [fn |-> "get_implied_vol", env |-> env, exp_str |-> 2,
     option_type |-> option_type, target_strike |-> target]

\* Calls in which each provider step may fail, on frames of at most one row
VolCallsFailing ==
    {VolCall(VolEnv(ctor, options, chain,
                    Chains(option_type, requested, other)), option_type, 100) :
        ctor \in {"ok", "raise"}, options \in OptionsAnswers,
        chain \in {"ok", "raise"}, option_type \in {"call", "put"},
        requested \in Frames(1), other \in Frames(0)}

\* Calls in which the provider answers, on frames of up to MaxChain rows
VolCallsSelecting ==
    {VolCall(VolEnv("ok", Num(ExpDates), "ok",
                    Chains(option_type, requested, other)),
             option_type, target) :
        option_type \in {"call", "put"}, requested \in Frames(MaxChain),
        other \in Frames(0), target \in {100, 101}}

VolCalls == VolCallsFailing \cup VolCallsSelecting

Pending == [kind |-> "pending"]
NoCall == [fn |-> "none"]

Apply_call_value ==
    /\ call.fn = "call_value" /\ ret = Pending
    /\ ret' = call_value(call.args.S, call.args.K, call.args.r,
                         call.args.sigma, call.args.T)
    /\ UNCHANGED <<call, loopVars>>

Apply_put_value ==
    /\ call.fn = "put_value" /\ ret = Pending
    /\ ret' = put_value(call.args.S, call.args.K, call.args.r,
                        call.args.sigma, call.args.T)
    /\ UNCHANGED <<call, loopVars>>

Apply_get_risk_free_rate ==
    /\ call.fn = "get_risk_free_rate" /\ ret = Pending
    /\ ret' = get_risk_free_rate(call.env)
    /\ UNCHANGED <<call, loopVars>>

Apply_get_implied_vol ==
    /\ call.fn = "get_implied_vol" /\ ret = Pending
    /\ ret' = get_implied_vol(call.env, call.exp_str, call.option_type,
                              call.target_strike)
    /\ UNCHANGED <<call, loopVars>>

Apply_get_live_price ==
    /\ call.fn = "get_live_price" /\ ret = Pending
    /\ ret' = get_live_price(call.env)
    /\ UNCHANGED <<call, loopVars>>

\* The loop's variables, before main() runs
LoopIdle ==
    /\ pc = "idle" /\ exc = "none" /\ raised_at = "none" /\ sigint = FALSE
    /\ now = 0 /\ cycle = 0
    /\ live_r = None /\ rate_queries = 0
    /\ price_queries = 0 /\ vol_queries = {}
    /\ positions = <<>> /\ ticker_data = <<>> /\ header = None /\ rows = <<>>

-----------------------------------------------------------------------------
(* The positions file.  A record is one row of csv.reader: cells is the    *)
(* number of its cells (0 for a blank line), hash whether its first cell   *)
(* starts with '#', the numeric cells hold a number or text that is none,  *)
(* expiration_date holds the instant dateparser.parse gives (in ticks) or  *)
(* text it cannot parse.                                                   *)

Text == [tag |-> "text"]

Record(ticker, expiration_date, option_type, strike, move_str, purchase_price, contracts) ==
    [cells |-> 7, hash |-> FALSE, ticker |-> ticker, expiration_date |-> expiration_date,
     option_type |-> option_type, strike |-> strike, move_str |-> move_str,
     purchase_price |-> purchase_price, contracts |-> contracts]

Past == Num(-1)
Near == Num(1)
Far == Num(4)

Records ==
    { Record("ABC", Far, "call", Num(100), Num(0), Num(5), Num(2)),
      Record("XYZ", Far, "PUT", Num(100), Num(5), Num(5), Num(1)),
      Record("ABC", Far, "call", Num(100), Num(-200), Num(5), Num(1)),
      Record("XYZ", Text, "call", Num(100), Num(0), Num(5), Num(1)),
      Record("ABC", Far, "straddle", Num(100), Num(0), Num(5), Num(1)),
      Record("ABC", Near, "Call", Num(100), Text, Num(5), Num(1)),
      Record("XYZ", Far, "put", Num(0), Num(0), Num(5), Num(0)),
      Record("XYZ", Past, "put", Num(100), Num(0), Num(5), Num(-1)),
      Record("ABC", Far, "call", Text, Num(0), Num(5), Num(1)),
      [Record("ABC", Far, "call", Num(100), Num(0), Num(5), Num(1))
          EXCEPT !.hash = TRUE] }

Files ==
    {[readable |-> b, records |-> f] :
        b \in {TRUE}, f \in SeqsUpTo(Records, MaxPositions)}
    \cup {[readable |-> FALSE, records |-> <<>>]}

ScreenHeights == {5, 7, 24}

\* str.lower() on the option type cell
lower(s) ==
    CASE s = "PUT" -> "put"
      [] s = "Call" -> "call"
      [] OTHER -> s

\* float() / int() of a cell: the number, or ValueError
IsNumeric(cell) == cell.tag = "val"

\* Skipped without the test for a comment row
SkippedKeepsComments(row) ==
    \/ row.cells = 0
    \/ row.cells < 7
    \/ ~IsNumeric(row.strike)
    \/ ~IsNumeric(row.purchase_price)
    \/ ~IsNumeric(row.contracts)

\* One row of the reader, lines 154-179: the position it appends, if any
Skipped(row) ==
    \/ row.cells = 0
    \/ row.hash
    \/ row.cells < 7
    \/ ~IsNumeric(row.strike)
    \/ ~IsNumeric(row.purchase_price)
    \/ ~IsNumeric(row.contracts)

Position(row) ==
    [ticker |-> row.ticker, expiration_date |-> row.expiration_date,
     option_type |-> lower(row.option_type), strike |-> row.strike.v,
     move_str |-> row.move_str, purchase_price |-> row.purchase_price.v,
     contracts |-> row.contracts.v]

RECURSIVE read_positions(_)
read_positions(records) ==
    IF records = <<>> THEN <<>>
    ELSE LET rest == read_positions(Tail(records)) IN
         IF Skipped(Head(records)) THEN rest
         ELSE <<Position(Head(records))>> \o rest

unique_tickers(pos) == {pos[k].ticker : k \in 1..Len(pos)}

-----------------------------------------------------------------------------
(* The loop body, lines 211-277, for the position at index i (from 1)      *)

\* stdscr.addstr(y, 0, line): curses.error when y is off the screen
addstr(y, line) ==
    IF y < LINES THEN Return(line) ELSE Raise("curses.error")

\* row_start + i, i counting from 0 in the source
row_y(i) == 6 + (i - 1)

\* (parsed_exp - datetime.now()).days: whole days, rounded down
days(parsed_exp, at) == (parsed_exp - at) \div 2

\* parsed_exp.strftime("%Y-%m-%d"): the date, without the time of day
strftime_date(parsed_exp) == parsed_exp \div 2

\* float(move_str.replace('+', '')), 0.0 on ValueError
move_value(move_str) == IF IsNumeric(move_str) THEN move_str.v ELSE 0

\* Arithmetic on a volatility that is None raises TypeError
price_option(option_type, S, K, r, sigma, T) ==
    IF ~IsNum(r) \/ ~IsNum(sigma) THEN Raise("TypeError")
    ELSE IF option_type = "call" THEN call_value(S, K, r.v, sigma.v, T)
    ELSE put_value(S, K, r.v, sigma.v, T)

\* data_line with the purchase cost taken per share, not per contract
data_line_per_share(pos, i, live_price, move_val, applied_price, T, bs_val_per_share) ==
    LET total_val == Times(bs_val_per_share, SHARES_PER_CONTRACT * pos.contracts)
        purchase_cost == pos.purchase_price * pos.contracts
        profit == Minus(total_val, purchase_cost)
    IN  addstr(row_y(i),
               [kind |-> "ok", ticker |-> pos.ticker,
                option_type |-> pos.option_type, strike |-> pos.strike,
                live_price |-> live_price, move_val |-> move_val,
                applied_price |-> applied_price, T |-> T,
                bs_val_per_share |-> bs_val_per_share,
                contracts |-> pos.contracts, total_val |-> total_val,
                profit |-> profit])

\* Lines 259-277: the totals and the data line
data_line(pos, i, live_price, move_val, applied_price, T, bs_val_per_share) ==
    LET total_val == Times(bs_val_per_share, SHARES_PER_CONTRACT * pos.contracts)
        purchase_cost == pos.purchase_price * SHARES_PER_CONTRACT * pos.contracts
        profit == Minus(total_val, purchase_cost)
    IN  addstr(row_y(i),
               [kind |-> "ok", ticker |-> pos.ticker,
                option_type |-> pos.option_type, strike |-> pos.strike,
                live_price |-> live_price, move_val |-> move_val,
                applied_price |-> applied_price, T |-> T,
                bs_val_per_share |-> bs_val_per_share,
                contracts |-> pos.contracts, total_val |-> total_val,
                profit |-> profit])

failure_line(pos, i, kind) ==
    addstr(row_y(i), [kind |-> kind, ticker |-> pos.ticker])

\* Lines 238-277, once the date has parsed and the price is there: sigma is
\* the outcome of get_implied_vol
value_row(pos, i, T, live_price, sigma) ==
    LET move_val == move_value(pos.move_str)
        applied_price == live_price + move_val
        bs == price_option(pos.option_type, applied_price, pos.strike,
                           live_r, sigma.val, T)
    IN  IF sigma.kind = "raise" THEN sigma
        ELSE IF pos.option_type \notin {"call", "put"}
             THEN failure_line(pos, i, "Unknown type")
        ELSE IF bs.kind = "raise" THEN bs
        ELSE data_line(pos, i, live_price, move_val, applied_price, T, bs.val)

\* Whether the body reaches the get_implied_vol call of line 247
reaches_vol(pos) ==
    /\ IsNumeric(pos.expiration_date)
    /\ pos.ticker \in DOMAIN ticker_data
    /\ ticker_data[pos.ticker] # None

\* ticker_data.get(ticker.strip(), None)
ticker_data_get(ticker) ==
    IF ticker \in DOMAIN ticker_data THEN ticker_data[ticker] ELSE None

row_body(pos, i, sigma) ==
    IF ~IsNumeric(pos.expiration_date) THEN failure_line(pos, i, "Invalid date")
    ELSE IF ticker_data_get(pos.ticker) = None
         THEN failure_line(pos, i, "(No data)")
    ELSE value_row(pos, i, days(pos.expiration_date.v, now),
                   ticker_data_get(pos.ticker).v, sigma)

-----------------------------------------------------------------------------
(* main() and stream_valuation, step by step.  A step of the program runs  *)
(* only while no SIGINT is pending; a pending SIGINT raises                *)
(* KeyboardInterrupt, which no handler but main()'s catches.  The refresh  *)
(* interval is one tick.                                                   *)

Running == pc \notin {"cancelled", "crashed"} /\ ~sigint

\* An exception leaves stream_valuation, curses.wrapper and main
Crash(e) ==
    /\ pc' = "crashed"
    /\ exc' = e
    /\ raised_at' = pc

\* The top of the while loop, lines 147-151
LoopTop ==
    /\ header' = None
    /\ rows' = <<>>
    /\ positions' = <<>>
    /\ price_queries' = 0
    /\ vol_queries' = {}

\* The provider's answers the loop is run against
LoopRateEnvs == {e \in RateEnvs : e.ctor = "ok" /\ e.info \in {Raises, Num(4)}}

LoopPriceEnvs ==
    {e \in PriceEnvs :
        /\ e.ctor = "ok" /\ e.has_fast
        /\ e.fast \in {Raises, Num(105)}
        /\ e.info = None /\ e.history = Empty}

LoopFrames ==
    {[rows |-> <<[strike |-> 100, iv |-> x]>>, has_iv |-> TRUE] :
        x \in {None} \cup {Num(v) : v \in IVValues}}

LoopVolEnvs ==
    {VolEnv("ok", Num(ExpDates), "ok", Chains("call", f, f)) : f \in LoopFrames}

\* Lines 141-144, then the top of the first cycle
Start ==
    /\ Running /\ pc = "idle"
    /\ \E env \in LoopRateEnvs :
        LET out == get_risk_free_rate(env) IN
        /\ rate_queries' = rate_queries + 1
        /\ IF out.kind = "raise"
           THEN /\ Crash(out.exc)
                /\ UNCHANGED <<live_r, cycle, header, rows, positions,
                                price_queries, vol_queries>>
           ELSE /\ live_r' = out.val
                /\ cycle' = 1
                /\ pc' = "load"
                /\ LoopTop
                /\ UNCHANGED <<exc, raised_at>>
    /\ UNCHANGED <<sigint, csv_file, now, LINES, ticker_data, call, ret>>

\* Lines 152-182: read the file, start ticker_data afresh
Load ==
    /\ Running /\ pc = "load"
    /\ IF ~csv_file.readable
       THEN /\ Crash("FileNotFoundError")
            /\ UNCHANGED <<positions, ticker_data>>
       ELSE /\ positions' = read_positions(csv_file.records)
            /\ ticker_data' = <<>>
            /\ pc' = IF positions' = <<>> THEN "header" ELSE "prices"
            /\ UNCHANGED <<exc, raised_at>>
    /\ UNCHANGED <<sigint, csv_file, now, LINES, cycle, live_r, rate_queries,
                   price_queries, vol_queries, header, rows, call, ret>>

\* tickers_left taking a ticker again while another is still to be fetched
tickers_again(tickers) ==
    IF tickers \subseteq DOMAIN ticker_data THEN {} ELSE tickers

\* Line 183: the tickers the for loop over the set has still to take
tickers_left(tickers) == tickers \ DOMAIN ticker_data

\* Lines 183-186, one ticker of the set
FetchPrice ==
    /\ Running /\ pc = "prices"
    /\ \E tck \in tickers_left(unique_tickers(positions)) :
       \E env \in LoopPriceEnvs :
        LET out == get_live_price(env) IN
        /\ price_queries' = price_queries + 1
        /\ IF out.kind = "raise"
           THEN /\ Crash(out.exc)
                /\ UNCHANGED ticker_data
           ELSE /\ ticker_data' =
                       [t \in DOMAIN ticker_data \cup {tck} |->
                           IF t = tck THEN out.val ELSE ticker_data[t]]
                /\ pc' = IF DOMAIN ticker_data' = unique_tickers(positions)
                         THEN "header" ELSE "prices"
                /\ UNCHANGED <<exc, raised_at>>
    /\ UNCHANGED <<sigint, csv_file, now, LINES, cycle, live_r, rate_queries,
                   vol_queries, positions, header, rows, call, ret>>

\* Lines 203-207: the five header lines, at rows 0, 1, 2, 3 and 5; the third
\* shows the rate
DrawHeader ==
    /\ Running /\ pc = "header"
    /\ header' = [lines |-> {y \in {0, 1, 2, 3, 5} : addstr(y, y).kind = "return"},
                  rate |-> IF addstr(2, 2).kind = "return" THEN live_r ELSE None]
    /\ IF \E y \in {0, 1, 2, 3, 5} : addstr(y, y).kind = "raise"
       THEN Crash("curses.error")
       ELSE /\ pc' = IF positions = <<>> THEN "refresh" ELSE "rows"
            /\ UNCHANGED <<exc, raised_at>>
    /\ UNCHANGED <<sigint, csv_file, now, LINES, cycle, live_r, rate_queries,
                   price_queries, vol_queries, positions, ticker_data, rows, call, ret>>

\* One pass of the for loop, lines 211-277
ProcessRow ==
    /\ Running /\ pc = "rows"
    /\ LET i == Len(rows) + 1
           pos == positions[i]
       IN
       \E env \in IF reaches_vol(pos) THEN LoopVolEnvs ELSE {None} :
            LET sigma == IF env = None THEN Return(Num(SIGMA_DEFAULT))
                         ELSE get_implied_vol(env,
                                  strftime_date(pos.expiration_date.v),
                                  pos.option_type, pos.strike)
                out == row_body(pos, i, sigma)
            IN
            /\ vol_queries' = IF env = None THEN vol_queries
                              ELSE vol_queries \cup {i}
            /\ IF out.kind = "raise"
               THEN /\ Crash(out.exc)
                    /\ UNCHANGED rows
               ELSE /\ rows' = Append(rows, out.val)
                    /\ pc' = IF i = Len(positions) THEN "refresh" ELSE "rows"
                    /\ UNCHANGED <<exc, raised_at>>
    /\ UNCHANGED <<sigint, csv_file, now, LINES, cycle, live_r, rate_queries,
                   price_queries, positions, ticker_data, header, call, ret>>

\* Line 279
Refresh ==
    /\ Running /\ pc = "refresh"
    /\ pc' = "sleep"
    /\ UNCHANGED <<exc, raised_at, sigint, csv_file, now, LINES, cycle, live_r,
                   rate_queries,
                   price_queries, vol_queries, positions, ticker_data, header, rows, call,
                   ret>>

\* Line 280 returns after the interval, and the next cycle begins
SleepReturns ==
    /\ pc = "sleep"
    /\ cycle < MaxCycles
    /\ now' = now + 1
    /\ cycle' = cycle + 1
    /\ rate_queries' = 0
    /\ pc' = "load"
    /\ LoopTop
    /\ UNCHANGED <<exc, raised_at, sigint, csv_file, LINES, live_r, ticker_data,
                   call, ret>>

\* time.sleep returning as if no signal had come
SleepDeaf == SleepReturns

\* time.sleep is cut short by a pending SIGINT
Sleep == Running /\ SleepReturns

\* The user edits the positions file before the cycle reads it: a record is
\* removed, or one is added at the end
Edits(f) ==
    {[f EXCEPT !.records = SubSeq(@, 1, k - 1) \o SubSeq(@, k + 1, Len(@))] :
        k \in 1..Len(f.records)}
    \cup {[f EXCEPT !.records = Append(@, r)] :
            r \in IF Len(f.records) < MaxPositions THEN Records ELSE {}}

EditFile ==
    /\ pc = "load" /\ cycle > 1 /\ csv_file.readable
    /\ \E f \in Edits(csv_file) : csv_file' = f
    /\ UNCHANGED <<pc, exc, raised_at, sigint, now, LINES, cycle, live_r, rate_queries,
                   price_queries, vol_queries, positions, ticker_data, header, rows, call, ret>>

\* The user presses Ctrl+C
CtrlC ==
    /\ Running
    /\ sigint' = TRUE
    /\ UNCHANGED <<pc, exc, raised_at, csv_file, now, LINES, cycle, live_r, rate_queries,
                   price_queries, vol_queries, positions, ticker_data, header, rows, call, ret>>

\* Lines 298-301: KeyboardInterrupt unwinds to main(), which prints and ends
KeyboardInterrupt ==
    /\ sigint /\ pc \notin {"cancelled", "crashed"}
    /\ pc' = "cancelled"
    /\ raised_at' = pc
    /\ sigint' = FALSE
    /\ UNCHANGED <<exc, csv_file, now, LINES, cycle, live_r, rate_queries,
                   price_queries, vol_queries, positions, ticker_data, header, rows, call, ret>>

Init ==
    /\ LoopIdle
    /\ csv_file \in Files
    /\ LINES \in ScreenHeights
    /\ call = NoCall /\ ret = Pending

Next ==
    \/ Start
    \/ Load
    \/ FetchPrice
    \/ DrawHeader
    \/ ProcessRow
    \/ Refresh
    \/ Sleep
    \/ EditFile
    \/ CtrlC
    \/ KeyboardInterrupt

Spec == Init /\ [][Next]_vars

-----------------------------------------------------------------------------
(* Unit runs, continued: the reader of the positions file on rows of every *)
(* kind, and the specification of the unit runs                            *)

GoodRow == Record("ABC", Far, "call", Num(100), Num(0), Num(5), Num(2))

RawRows ==
    { GoodRow,
      Record("XYZ", Text, "PUT", Num(-100), Text, Num(5), Num(-1)),
      [GoodRow EXCEPT !.cells = 8],
      [GoodRow EXCEPT !.cells = 0],
      [GoodRow EXCEPT !.cells = 3],
      [GoodRow EXCEPT !.hash = TRUE],
      [GoodRow EXCEPT !.strike = Text],
      [GoodRow EXCEPT !.purchase_price = Text],
      [GoodRow EXCEPT !.contracts = Text] }

ReaderCalls ==
    {[fn |-> "read_positions", records |-> f] :
        f \in SeqsUpTo(RawRows, MaxPositions)}

UnitCalls ==
    {[fn |-> "call_value", args |-> a] : a \in PricingArgs}
    \cup {[fn |-> "put_value", args |-> a] : a \in PricingArgs}
    \cup {[fn |-> "get_risk_free_rate", env |-> e] : e \in RateEnvs}
    \cup {[fn |-> "get_live_price", env |-> e] : e \in PriceEnvs}
    \cup VolCalls
    \cup ReaderCalls

Apply_read_positions ==
    /\ call.fn = "read_positions" /\ ret = Pending
    /\ ret' = Return(read_positions(call.records))
    /\ UNCHANGED <<call, loopVars>>

InitUnit ==
    /\ LoopIdle /\ csv_file = <<>> /\ LINES = 24
    /\ call \in UnitCalls /\ ret = Pending

NextUnit ==
    \/ Apply_call_value
    \/ Apply_put_value
    \/ Apply_get_risk_free_rate
    \/ Apply_get_implied_vol
    \/ Apply_get_live_price
    \/ Apply_read_positions

SpecUnit == InitUnit /\ [][NextUnit]_vars

-----------------------------------------------------------------------------
(* Claims *)

Returned == ret # Pending

PricingErrors == {"ValueError", "ZeroDivisionError", "TypeError"}

\* C1: no error raised while computing one position's row aborts the cycle
\* or the process, whatever the resolved market inputs: the remaining
\* positions are processed and the cycle reaches its refresh and sleep step.
C1_RowFailuresIsolated ==
    ~(pc = "crashed" /\ raised_at = "rows" /\ exc \in PricingErrors)

\* C2: call_value and put_value report an error outcome - they neither raise
\* nor return a number - whenever spot <= 0, strike <= 0 or vol <= 0, for
\* every time to expiry.
C2_PricingReportsError ==
    (/\ Returned
     /\ call.fn \in {"call_value", "put_value"}
     /\ (call.args.S <= 0 \/ call.args.K <= 0 \/ call.args.sigma <= 0))
    => ret.kind \notin {"raise", "return"}

FailureKinds == {"Invalid date", "(No data)", "Unknown type"}

\* The cycle is over: it reached its refresh, or an error in the computation
\* of a row ended it
CycleOver ==
    /\ positions # <<>>
    /\ \/ pc \in {"refresh", "sleep"}
       \/ pc = "crashed" /\ raised_at = "rows" /\ exc \in PricingErrors

Valuable(pos) ==
    /\ IsNumeric(pos.expiration_date)
    /\ pos.option_type \in {"call", "put"}
    /\ ticker_data_get(pos.ticker) # None

\* C3: if the price of a ticker is unavailable in a cycle, every position on
\* that ticker gets a failure row in that cycle, and every position on
\* another ticker whose price is available, whose expiration parses and whose
\* type is call or put gets a successful valuation row in the same cycle.
C3_UnavailablePriceIsolated ==
    CycleOver =>
        \A t \in DOMAIN ticker_data :
            ticker_data[t] = None =>
                \A k \in 1..Len(positions) :
                    /\ positions[k].ticker = t =>
                        /\ k <= Len(rows)
                        /\ rows[k].kind \in FailureKinds
                    /\ (positions[k].ticker # t /\ Valuable(positions[k])) =>
                        /\ k <= Len(rows)
                        /\ rows[k].kind = "ok"

\* C4: a cancellation requested while the loop sleeps stops it before the
\* next fetching phase: no further position load, provider query or screen
\* draw happens, and the cancelled state is terminal.
C4_CancelDuringSleep ==
    [][/\ (pc = "sleep" /\ sigint) =>
            /\ pc' \in {"sleep", "cancelled"}
            /\ UNCHANGED <<cycle, rate_queries,
                   price_queries, vol_queries, positions, ticker_data,
                           header, rows>>
       /\ pc = "cancelled" => UNCHANGED vars]_vars

C4_Witness ==
    /\ pc = "cancelled" /\ raised_at = "sleep"
    /\ cycle = 1 /\ rows # <<>>

\* C5: the rate resolver is queried exactly once in every cycle, the first
\* and every later one, and the cycle's rows and header use that value.
C5_RateResolvedEachCycle ==
    pc \in {"refresh", "sleep"} => rate_queries = 1

\* What the three sources of get_live_price give, in the order fast_info,
\* info, history: a price, or None when the source fails or has none
SourcePrices(env) ==
    << IF env.ctor = "ok" /\ env.has_fast /\ IsNum(env.fast) THEN env.fast ELSE None,
       IF env.ctor = "ok" /\ IsNum(env.info) THEN env.info ELSE None,
       IF env.ctor = "ok" /\ IsNum(env.history) THEN env.history ELSE None >>

FirstPrice(prices) ==
    IF \A k \in 1..Len(prices) : prices[k] = None THEN None
    ELSE prices[CHOOSE k \in 1..Len(prices) :
                    /\ prices[k] # None
                    /\ \A j \in 1..(k - 1) : prices[j] = None]

\* C6: get_live_price returns the price of the first of fast_info, info,
\* history that succeeds with a non-null value, and None only if all three
\* fail or have none, for every combination of per-source outcomes.
C6_FirstSuccessfulSource ==
    (Returned /\ call.fn = "get_live_price")
    => ret = Return(FirstPrice(SourcePrices(call.env)))

RequestedFrame == select_frame(call.env, call.option_type)

\* C7: no resolver lets a provider exception escape: get_risk_free_rate
\* returns a rate or the default, get_implied_vol a volatility or the
\* default, get_live_price a price or None.
C7_ResolversContainExceptions ==
    /\ (Returned /\ call.fn = "get_risk_free_rate") =>
        /\ ret.kind = "return"
        /\ \/ ret.val = Num(R_DEFAULT)
           \/ IsNum(call.env.info) /\ ret.val = Num(call.env.info.v * 100)
    /\ (Returned /\ call.fn = "get_implied_vol") =>
        /\ ret.kind = "return"
        /\ \/ ret.val = Num(SIGMA_DEFAULT)
           \/ /\ IsNum(ret.val)
              /\ \E k \in 1..Len(RequestedFrame.rows) :
                    ret.val = RequestedFrame.rows[k].iv
    /\ (Returned /\ call.fn = "get_live_price") =>
        /\ ret.kind = "return"
        /\ \/ ret.val = None
           \/ /\ IsNum(ret.val)
              /\ ret.val \in {call.env.fast, call.env.info, call.env.history}

C7_Witness ==
    /\ Returned /\ call.fn = "get_live_price"
    /\ call.env.ctor = "ok" /\ call.env.fast = Raises
    /\ call.env.history = Raises
    /\ ret = Return(None)

\* The provider answered every step of a get_implied_vol call and the frame
\* asked for has rows
ChainAnswered ==
    /\ call.fn = "get_implied_vol"
    /\ call.env.ctor = "ok"
    /\ call.env.options # Raises
    /\ call.exp_str \in call.env.options.v
    /\ call.env.chain = "ok"
    /\ RequestedFrame.rows # <<>>

Distance(k) == Abs(RequestedFrame.rows[k].strike - call.target_strike)

\* The first row, in chain order, among those closest to the target strike
IsFirstClosest(k) ==
    /\ \A j \in 1..Len(RequestedFrame.rows) : Distance(k) <= Distance(j)
    /\ \A j \in 1..(k - 1) : Distance(j) > Distance(k)

\* The volatility of row k, the default standing in for one that is absent
VolOfRow(k) ==
    IF RequestedFrame.has_iv /\ RequestedFrame.rows[k].iv # None
    THEN RequestedFrame.rows[k].iv
    ELSE Num(SIGMA_DEFAULT)

\* C8: on a non-empty chain of the requested expiration and type,
\* get_implied_vol returns the implied volatility of a row whose distance to
\* the target strike is minimal, the first such row in chain order.
C8_ClosestStrikeFirst ==
    (Returned /\ ChainAnswered)
    => \E k \in 1..Len(RequestedFrame.rows) :
            /\ IsFirstClosest(k)
            /\ ret = Return(VolOfRow(k))

C8_Witness ==
    /\ Returned /\ ChainAnswered
    /\ call.target_strike = 101
    /\ RequestedFrame.has_iv
    /\ RequestedFrame.rows =
          << [strike |-> 95, iv |-> Num(0)], [strike |-> 100, iv |-> Num(30)],
             [strike |-> 105, iv |-> Num(0)] >>
    /\ ret = Return(Num(30))

\* The provider has nothing to give a get_implied_vol call: no matching
\* expiration, an empty chain, no volatility column, or a null volatility
NoVolatility ==
    /\ call.fn = "get_implied_vol"
    /\ call.env.ctor = "ok"
    /\ call.env.options # Raises
    /\ \/ call.exp_str \notin call.env.options.v
       \/ /\ call.env.chain = "ok"
          /\ \/ RequestedFrame.rows = <<>>
             \/ ~RequestedFrame.has_iv
             \/ \E k \in 1..Len(RequestedFrame.rows) :
                    IsFirstClosest(k) /\ RequestedFrame.rows[k].iv = None

\* C9: the rate and the volatility handed to pricing are never null: with no
\* matching expiration, an empty chain, a missing or null volatility, or a
\* null rate, the defaults 0.25 and 0.05 stand in.
C9_RateAndVolPresent ==
    /\ (Returned /\ call.fn \in {"get_risk_free_rate", "get_implied_vol"}) =>
        ret.kind = "return" /\ IsNum(ret.val)
    /\ (Returned /\ NoVolatility) => ret.val = Num(SIGMA_DEFAULT)
    /\ (Returned /\ call.fn = "get_risk_free_rate" /\ call.env.ctor = "ok"
            /\ call.env.info = None) => ret.val = Num(R_DEFAULT)

C9_Witness ==
    /\ Returned /\ NoVolatility
    /\ call.env.chain = "ok"
    /\ RequestedFrame.has_iv
    /\ Len(RequestedFrame.rows) = 2
    /\ RequestedFrame.rows[1].iv = None
    /\ RequestedFrame.rows[2].iv = Num(30)
    /\ IsFirstClosest(1)
    /\ ret = Return(Num(SIGMA_DEFAULT))

\* C10: a failing draw call is not fatal to the loop: the loop still reaches
\* its sleep step and starts the next cycle.
C10_RenderFailureNotFatal ==
    ~(pc = "crashed" /\ exc = "curses.error")

\* A record the reader must leave out: blank, a comment, short of seven
\* fields, or with text where the strike, the purchase price or the number of
\* contracts should be
Malformed(row) ==
    \/ row.cells = 0
    \/ row.hash
    \/ row.cells < 7
    \/ row.strike = Text
    \/ row.purchase_price = Text
    \/ row.contracts = Text

RECURSIVE WellFormed(_)
WellFormed(records) ==
    IF records = <<>> THEN <<>>
    ELSE IF Malformed(Head(records)) THEN WellFormed(Tail(records))
         ELSE <<Head(records)>> \o WellFormed(Tail(records))

\* C11: the reader of the positions file never raises on a malformed record
\* and never loads one: it returns, in the order of the file, exactly the
\* records that are not blank, not a comment, have seven fields or more and
\* hold numbers in the strike, purchase price and contracts fields.
C11_MalformedRecordsSkipped ==
    (call.fn = "read_positions" /\ ret # Pending) =>
        /\ ret.kind = "return"
        /\ LET kept == WellFormed(call.records) IN
           /\ Len(ret.val) = Len(kept)
           /\ \A k \in 1..Len(kept) :
                 /\ ret.val[k].ticker = kept[k].ticker
                 /\ ret.val[k].expiration_date = kept[k].expiration_date
                 /\ ret.val[k].option_type = lower(kept[k].option_type)
                 /\ ret.val[k].strike = kept[k].strike.v
                 /\ ret.val[k].move_str = kept[k].move_str
                 /\ ret.val[k].purchase_price = kept[k].purchase_price.v
                 /\ ret.val[k].contracts = kept[k].contracts.v

\* a file with a comment row ahead of a good one: only the good one is loaded
C11_Witness ==
    /\ call.fn = "read_positions"
    /\ Len(call.records) = 2
    /\ call.records[1].hash
    /\ call.records[2] = GoodRow
    /\ ret = Return(<<Position(GoodRow)>>)

\* C12: every position that reaches valuation has contracts > 0 and
\* strike > 0, whatever numbers the file holds.
C12_ValuedPositionsPositive ==
    \A k \in 1..Len(rows) :
        rows[k].kind = "ok" =>
            /\ positions[k].contracts > 0
            /\ positions[k].strike > 0

\* the payoff of an option of the called kind at spot S and strike K
Intrinsic(fn, S, K) ==
    IF fn = "call_value"
    THEN (IF S > K THEN S - K ELSE 0)
    ELSE (IF K > S THEN K - S ELSE 0)

\* C13: with T <= 0 the value is the intrinsic value exactly: max(0, S - K)
\* for a call and max(0, K - S) for a put, for every spot, strike, rate and
\* volatility, and it is never negative.
C13_IntrinsicAtExpiry ==
    (/\ call.fn \in {"call_value", "put_value"}
     /\ call.args.T <= 0
     /\ ret # Pending) =>
        /\ ret.kind = "return"
        /\ ret.val.coef = 0
        /\ ret.val.const = Intrinsic(call.fn, call.args.S, call.args.K)
        /\ ret.val.const >= 0

\* a put at expiry, out of the money: the value is 0, not K - S
C13_Witness ==
    /\ call.fn = "put_value"
    /\ call.args.T = 0
    /\ call.args.S = 105
    /\ call.args.K = 100
    /\ call.args.sigma = 0
    /\ ret = Return(Exact(0))

\* The rows drawn in this cycle for positions that were valued
ValuedRows == {k \in 1..Len(rows) : rows[k].kind = "ok"}

\* The move of a position: its move field as a number, 0 when it is not one
MoveOf(pos) == IF pos.move_str = Text THEN 0 ELSE pos.move_str.v

\* v is the pricing result for a position of this type and strike at spot S
\* and T days to expiry: the payoff for T <= 0, the closed form otherwise
IsPriceOf(v, option_type, S, K, T) ==
    IF T <= 0
    THEN /\ v.coef = 0
         /\ v.const = Intrinsic(option_type \o "_value", S, K)
    ELSE /\ v.coef = 1 /\ v.const = 0
         /\ v.term.fn = option_type
         /\ v.term.S = S /\ v.term.K = K /\ v.term.T = T
         /\ v.term.r = live_r.v

\* C14: for every valued position the total value is the value per share
\* times 100 times the contracts, and the profit is the total value less the
\* purchase price times 100 times the contracts; the value per share is the
\* pricing result at the applied price, the spot plus the move, a move that
\* does not parse counting as 0 without failing the row.
C14_TotalsAndProfit ==
    \A k \in ValuedRows :
        LET pos == positions[k]
            row == rows[k]
            n == SHARES_PER_CONTRACT * pos.contracts
        IN  /\ row.live_price = ticker_data[pos.ticker].v
            /\ row.applied_price = row.live_price + MoveOf(pos)
            /\ IsPriceOf(row.bs_val_per_share, pos.option_type,
                         row.applied_price, pos.strike, row.T)
            /\ row.total_val.term = row.bs_val_per_share.term
            /\ row.total_val.coef = row.bs_val_per_share.coef * n
            /\ row.total_val.const = row.bs_val_per_share.const * n
            /\ row.profit.term = row.total_val.term
            /\ row.profit.coef = row.total_val.coef
            /\ row.profit.const = row.total_val.const - pos.purchase_price * n

\* a call whose move field is text, valued at the spot itself: 105 against a
\* strike of 100 at expiry gives 5 a share, 500 in total, bought for 500
C14_Witness ==
    \E k \in ValuedRows :
        /\ positions[k].move_str = Text
        /\ rows[k].applied_price = 105
        /\ rows[k].bs_val_per_share = Exact(5)
        /\ rows[k].total_val = Exact(500)
        /\ rows[k].profit = Exact(0)

\* The outcome the checks of a row give a position, the first failing check
\* deciding: the date, then the price, then the option type
ExpectedOutcome(pos) ==
    IF pos.expiration_date = Text THEN "Invalid date"
    ELSE IF ticker_data_get(pos.ticker) = None THEN "(No data)"
    ELSE IF pos.option_type \notin {"call", "put"} THEN "Unknown type"
    ELSE "ok"

\* C16: each position yields exactly one outcome per cycle, the first failing
\* check deciding it: invalid date; else no data for its ticker; else unknown
\* option type; else a successful valuation.  The volatility resolver is
\* never queried for a position whose outcome is invalid date or no data.
C16_OneOutcomeByFirstFailingCheck ==
    /\ \A k \in 1..Len(rows) : rows[k].kind = ExpectedOutcome(positions[k])
    /\ \A k \in vol_queries :
          ExpectedOutcome(positions[k]) \notin {"Invalid date", "(No data)"}
    /\ CycleOver => Len(rows) = Len(positions)

\* Ticks from now to the expiration of the position of row k
TicksToExpiry(k) == positions[k].expiration_date.v - now

\* C17: the time to expiry is that of the actual time difference between the
\* expiration and now, so a valued position expiring later than now has
\* T > 0 and the closed-form value, and one expiring at or before now has
\* T <= 0 and the intrinsic value.
C17_ActualTimeDifference ==
    \A k \in ValuedRows :
        /\ TicksToExpiry(k) > 0 =>
              rows[k].T > 0 /\ rows[k].bs_val_per_share.coef = 1
        /\ TicksToExpiry(k) <= 0 =>
              rows[k].T <= 0 /\ rows[k].bs_val_per_share.coef = 0

\* Row k shows position k
ShowsPosition(k) ==
    /\ rows[k].ticker = positions[k].ticker
    /\ rows[k].kind = "ok" =>
          /\ rows[k].option_type = positions[k].option_type
          /\ rows[k].strike = positions[k].strike
          /\ rows[k].contracts = positions[k].contracts

\* C18: the rows of a cycle follow the order of the position list: the i-th
\* loaded position is drawn on the i-th data row, whether it succeeded or
\* failed, and no position is drawn twice or left out.
C18_RowsInListOrder ==
    /\ Len(rows) <= Len(positions)
    /\ \A k \in 1..Len(rows) : ShowsPosition(k)
    /\ CycleOver => Len(rows) = Len(positions)

\* The cycle has read the positions file
FileRead == pc \in {"prices", "header", "rows", "refresh", "sleep"}

\* C19: no valuation state carries over between cycles: each cycle reloads
\* the position list and fetches the spot prices again, so the rows of a
\* cycle depend only on the file content and the provider answers read
\* during that cycle, and a position removed from the file before the cycle
\* has no row in it.
C19_NothingCarriedOver ==
    /\ FileRead => positions = read_positions(csv_file.records)
    /\ \A k \in 1..Len(rows) :
          /\ ShowsPosition(k)
          /\ rows[k].kind = "ok" =>
                /\ price_queries > 0
                /\ rows[k].live_price = ticker_data[rows[k].ticker].v
                /\ rows[k].bs_val_per_share.coef = 1 => rate_queries > 0

\* The prices of the cycle are all fetched
PricesFetched == pc \in {"header", "rows", "refresh", "sleep"}

\* C20: within one cycle the spot price is queried exactly once per distinct
\* ticker of the position list, before any row is valued, and all positions
\* on one ticker are valued from that one price.
C20_OnePricePerTicker ==
    /\ pc = "prices" =>
          /\ rows = <<>>
          /\ price_queries = Cardinality(DOMAIN ticker_data)
          /\ DOMAIN ticker_data \subseteq unique_tickers(positions)
    /\ PricesFetched =>
          /\ DOMAIN ticker_data = unique_tickers(positions)
          /\ price_queries = Cardinality(unique_tickers(positions))
    /\ rows # <<>> => PricesFetched \/ pc \in {"crashed", "cancelled"}
    /\ \A k \in 1..Len(rows) :
          /\ rows[k].kind = "ok" =>
                rows[k].live_price = ticker_data[positions[k].ticker].v
          /\ rows[k].kind = "(No data)" =>
                ticker_data[positions[k].ticker] = None
    /\ \A j, k \in ValuedRows :
          positions[j].ticker = positions[k].ticker =>
              rows[j].live_price = rows[k].live_price

\* two positions on ABC, both valued from the one price fetched for ABC
C20_Witness ==
    /\ Len(rows) = 2
    /\ \A k \in 1..2 : positions[k].ticker = "ABC" /\ rows[k].kind = "ok"
    /\ price_queries = 1
    /\ rows[1].live_price = 105 /\ rows[2].live_price = 105

====
